---- MODULE Spec2Model ----
(***************************************************************************)
(* Model of pkg/reconciler/taskrun/validate_resources.go (tektoncd         *)
(* pipeline): the validation of a TaskRun's params, resources, overrides   *)
(* and results against the Task's declarations.                            *)
(*                                                                         *)
(* Every validator is a pure function of its arguments.  A behaviour is    *)
(* one call: Init draws the arguments, the call action applies the         *)
(* function and stores the returned error (NilError for a nil error).      *)
(***************************************************************************)
EXTENDS Naturals, Sequences, FiniteSets

VARIABLES pc, args, err

vars == <<pc, args, err>>

Nil == "nil"

\* Total number of list entries (declared specs + params + matrix params)
\* drawn for one call of validateParams.
MaxParamEntries == 3

(***************************************************************************)
(* Values of v1beta1.ParamType.                                            *)
(***************************************************************************)
ParamTypeString == "string"
ParamTypeArray == "array"
ParamTypeObject == "object"
ParamTypes == {ParamTypeString, ParamTypeArray, ParamTypeObject}

ParamNames == {"a", "b"}
Keys == {"x", "y"}
FeatureFlags == {"stable", "alpha"}

(***************************************************************************)
(* Helpers for Go slices and maps.                                         *)
(***************************************************************************)
Range(s) == {s[i] : i \in 1..Len(s)}

\* The keys of a Go map in the order one `for key := range m` visits them.
\* The language leaves that order open; the validators only ever test
\* membership in the resulting slices.
RECURSIVE KeysInRangeOrder(_)
KeysInRangeOrder(S) ==
    IF S = {} THEN <<>>
    ELSE LET k == CHOOSE k \in S : TRUE
         IN <<k>> \o KeysInRangeOrder(S \ {k})

\* Sequences over S of length exactly n.
SeqN(S, n) == [1..n -> S]

\* list.DiffLeft: the entries of left that occur nowhere in right, in left's
\* order, repeated entries of left each tested on their own.
DiffLeft(left, right) ==
    SelectSeq(left, LAMBDA s : \A j \in 1..Len(right) : right[j] # s)

(***************************************************************************)
(* Errors: fmt.Errorf(format, vals...) is [msg |-> format, vals |-> the     *)
(* tuple of formatted values]; a nil error is NilError.                    *)
(***************************************************************************)
Errorf(msg, vals) == [msg |-> msg, vals |-> vals]
NilError == [msg |-> Nil, vals |-> <<>>]

MsgMissingParams == "missing values for these params which have no default values"
MsgExtraParams == "didn't need these params but they were provided anyway"
MsgWrongTypeParams == "param types don't match the user-specified type"
MsgMissingKeysParams == "missing keys for these params which are required in ParamSpec's properties"

(***************************************************************************)
(* validateParams and its sub-checks.                                      *)
(***************************************************************************)
neededParamsNames(paramSpecs) == [i \in 1..Len(paramSpecs) |-> paramSpecs[i].Name]

\* The map is written in list order, so a repeated name keeps its last type.
neededParamsTypes(paramSpecs) ==
    [n \in {paramSpecs[i].Name : i \in 1..Len(paramSpecs)} |->
        LET last == CHOOSE i \in 1..Len(paramSpecs) :
                        /\ paramSpecs[i].Name = n
                        /\ \A j \in 1..Len(paramSpecs) : paramSpecs[j].Name = n => j <= i
        IN paramSpecs[last].Type]

providedParamsNames(ps) == [i \in 1..Len(ps) |-> ps[i].Name]

RECURSIVE missingParamsNamesLoop(_, _)
missingParamsNamesLoop(missing, paramSpecs) ==
    IF missing = <<>> THEN <<>>
    ELSE LET param == Head(missing)
             hits == SelectSeq(paramSpecs,
                        LAMBDA s : s.Name = param /\ s.Default = Nil)
         IN [i \in 1..Len(hits) |-> param]
                \o missingParamsNamesLoop(Tail(missing), paramSpecs)

\* Mutant: every missing name is reported, with a default or without.
missingParamsNames_IgnoreDefault(neededParams, providedParams, paramSpecs) ==
    DiffLeft(neededParams, providedParams)

missingParamsNames(neededParams, providedParams, paramSpecs) ==
    missingParamsNamesLoop(DiffLeft(neededParams, providedParams), paramSpecs)

\* Mutant: the extra check is not switched off under alpha.
extraParamsNames_AlwaysStrict(ctx, neededParams, providedParams) ==
    DiffLeft(providedParams, neededParams)

extraParamsNames(ctx, neededParams, providedParams) ==
    IF ctx # "alpha" THEN DiffLeft(providedParams, neededParams) ELSE <<>>

\* Mutant: a matrix param is checked by its own value type.
wrongTypeParamsNames_MatrixByValue(params, matrix, neededTypes) ==
    providedParamsNames(SelectSeq(params \o matrix,
        LAMBDA p : /\ p.Name \in DOMAIN neededTypes
                   /\ p.Value.Type # neededTypes[p.Name]))

wrongTypeParamsNames(params, matrix, neededTypes) ==
    providedParamsNames(SelectSeq(params,
        LAMBDA p : /\ p.Name \in DOMAIN neededTypes
                   /\ p.Value.Type # neededTypes[p.Name]))
    \o
    providedParamsNames(SelectSeq(matrix,
        LAMBDA p : /\ p.Name \in DOMAIN neededTypes
                   /\ neededTypes[p.Name] # ParamTypeString))

\* keys[name] after the loop `for _, e := range list { if object(e) { for key
\* := range keysOf(e) { keys[name] = append(keys[name], key) } } }`: a name
\* gets an entry only when at least one key was appended for it.
RECURSIVE appendKeys(_, _)
appendKeys(list, name) ==
    IF list = <<>> THEN <<>>
    ELSE (IF Head(list).Name = name THEN KeysInRangeOrder(Head(list).Keys) ELSE <<>>)
            \o appendKeys(Tail(list), name)

collectKeys(list) ==
    [n \in {list[i].Name : i \in {j \in 1..Len(list) : list[j].Keys # {}}} |->
        appendKeys(list, n)]

findMissingKeys(neededKeys, providedKeys) ==
    [p \in {q \in DOMAIN providedKeys :
                /\ q \in DOMAIN neededKeys
                /\ DiffLeft(neededKeys[q], providedKeys[q]) # <<>>} |->
        DiffLeft(neededKeys[p], providedKeys[p])]

objectSpecKeys(paramSpecs) ==
    LET objs == SelectSeq(paramSpecs, LAMBDA s : s.Type = ParamTypeObject)
    IN [i \in 1..Len(objs) |-> [Name |-> objs[i].Name, Keys |-> objs[i].Properties]]

objectParamKeys(params) ==
    LET objs == SelectSeq(params, LAMBDA p : p.Value.Type = ParamTypeObject)
    IN [i \in 1..Len(objs) |-> [Name |-> objs[i].Name, Keys |-> objs[i].Value.ObjectVal]]

MissingKeysObjectParamNames(paramSpecs, params) ==
    findMissingKeys(collectKeys(objectSpecKeys(paramSpecs)),
                    collectKeys(objectParamKeys(params)))

\* Mutant: the wrong-type check runs before the missing and the extra check.
validateParams_WrongTypeFirst(ctx, paramSpecs, params, matrix) ==
    LET needed == neededParamsNames(paramSpecs)
        neededTypes == neededParamsTypes(paramSpecs)
        provided == providedParamsNames(params \o matrix)
        missing == missingParamsNames(needed, provided, paramSpecs)
        extra == extraParamsNames(ctx, needed, provided)
        wrongType == wrongTypeParamsNames(params, matrix, neededTypes)
        missingKeys == MissingKeysObjectParamNames(paramSpecs, params)
    IN IF Len(wrongType) # 0 THEN Errorf(MsgWrongTypeParams, <<wrongType>>)
       ELSE IF Len(missing) # 0 THEN Errorf(MsgMissingParams, <<missing>>)
       ELSE IF Len(extra) # 0 THEN Errorf(MsgExtraParams, <<extra>>)
       ELSE IF DOMAIN missingKeys # {} THEN Errorf(MsgMissingKeysParams, <<missingKeys>>)
       ELSE NilError

validateParams(ctx, paramSpecs, params, matrix) ==
    LET needed == neededParamsNames(paramSpecs)
        neededTypes == neededParamsTypes(paramSpecs)
        provided == providedParamsNames(params \o matrix)
        missing == missingParamsNames(needed, provided, paramSpecs)
        extra == extraParamsNames(ctx, needed, provided)
        wrongType == wrongTypeParamsNames(params, matrix, neededTypes)
        missingKeys == MissingKeysObjectParamNames(paramSpecs, params)
    IN IF Len(missing) # 0 THEN Errorf(MsgMissingParams, <<missing>>)
       ELSE IF Len(extra) # 0 THEN Errorf(MsgExtraParams, <<extra>>)
       ELSE IF Len(wrongType) # 0 THEN Errorf(MsgWrongTypeParams, <<wrongType>>)
       ELSE IF DOMAIN missingKeys # {} THEN Errorf(MsgMissingKeysParams, <<missingKeys>>)
       ELSE NilError

(***************************************************************************)
(* Arguments of one validateParams call.                                   *)
(***************************************************************************)
\* Properties and ObjectVal are read only under an Object type.
ParamSpecs ==
    {[Name |-> n, Type |-> t, Default |-> d, Properties |-> k] :
        n \in ParamNames, t \in ParamTypes \ {ParamTypeObject},
        d \in {Nil, "default"}, k \in {{}}}
    \cup
    {[Name |-> n, Type |-> t, Default |-> d, Properties |-> k] :
        n \in ParamNames, t \in {ParamTypeObject},
        d \in {Nil, "default"}, k \in SUBSET Keys}

ParamValues ==
    {[Type |-> t, ObjectVal |-> k] : t \in ParamTypes \ {ParamTypeObject}, k \in {{}}}
    \cup
    {[Type |-> t, ObjectVal |-> k] : t \in {ParamTypeObject}, k \in SUBSET Keys}

Params == {[Name |-> n, Value |-> v] : n \in ParamNames, v \in ParamValues}

\* A matrix entry's value is never read beyond its name.
MatrixParams ==
    {[Name |-> n, Value |-> [Type |-> t, ObjectVal |-> {}]] :
        n \in ParamNames, t \in ParamTypes}

InitParams ==
    /\ pc = "ready"
    /\ err = NilError
    /\ \E ns \in 0..MaxParamEntries :
       \E np \in 0..(MaxParamEntries - ns) :
       \E nm \in 0..(MaxParamEntries - ns - np) :
         args \in [ctx : FeatureFlags, paramSpecs : SeqN(ParamSpecs, ns),
                   params : SeqN(Params, np), matrix : SeqN(MatrixParams, nm)]

CallValidateParams ==
    /\ pc = "ready"
    /\ err' = validateParams(args.ctx, args.paramSpecs, args.params, args.matrix)
    /\ pc' = "done"
    /\ UNCHANGED args

NextParams == CallValidateParams

SpecParams == InitParams /\ [][NextParams]_vars

(***************************************************************************)
(* What the claims about validateParams speak of, read off the arguments.  *)
(***************************************************************************)
Returned == pc = "done"

DeclaredNames == {args.paramSpecs[i].Name : i \in 1..Len(args.paramSpecs)}
SuppliedNames ==
    {args.params[i].Name : i \in 1..Len(args.params)}
        \cup {args.matrix[i].Name : i \in 1..Len(args.matrix)}

\* Names of the declared ParamSpecs without default that nobody supplies.
NoDefaultAbsent ==
    {args.paramSpecs[i].Name :
        i \in {j \in 1..Len(args.paramSpecs) :
                  /\ args.paramSpecs[j].Default = Nil
                  /\ args.paramSpecs[j].Name \notin SuppliedNames}}

Undeclared == SuppliedNames \ DeclaredNames

\* The declared type of a declared name (the last declaration of the name).
DeclaredType(n) ==
    LET last == CHOOSE i \in 1..Len(args.paramSpecs) :
                    /\ args.paramSpecs[i].Name = n
                    /\ \A j \in (i + 1)..Len(args.paramSpecs) : args.paramSpecs[j].Name # n
    IN args.paramSpecs[last].Type

OrdinaryWrongType ==
    {i \in 1..Len(args.params) :
        /\ args.params[i].Name \in DeclaredNames
        /\ args.params[i].Value.Type # DeclaredType(args.params[i].Name)}

MatrixNotString ==
    {i \in 1..Len(args.matrix) :
        /\ args.matrix[i].Name \in DeclaredNames
        /\ DeclaredType(args.matrix[i].Name) # ParamTypeString}

\* Ordinary Object params that lack a key of a same-named Object ParamSpec.
ObjectParamsLackingKeys ==
    {i \in 1..Len(args.params) :
        /\ args.params[i].Value.Type = ParamTypeObject
        /\ \E j \in 1..Len(args.paramSpecs) :
              /\ args.paramSpecs[j].Name = args.params[i].Name
              /\ args.paramSpecs[j].Type = ParamTypeObject
              /\ ~(args.paramSpecs[j].Properties \subseteq args.params[i].Value.ObjectVal)}

\* C1: whenever validateParams returns nil, every ordinary Object param whose
\* name matches a declared Object-typed ParamSpec holds every key of that
\* ParamSpec's properties, whatever its key set (the empty one included).
C1_ObjectKeysComplete ==
    (Returned /\ err = NilError) => ObjectParamsLackingKeys = {}

\* C2: validateParams returns the 'missing values' error exactly when some
\* declared ParamSpec has no default and its name is supplied neither as an
\* ordinary nor as a matrix param, and the error names exactly those names.
C2_MissingWithoutDefault ==
    Returned =>
        /\ (err.msg = MsgMissingParams) <=> (NoDefaultAbsent # {})
        /\ (err.msg = MsgMissingParams) => Range(err.vals[1]) = NoDefaultAbsent

\* A 'missing values' error is returned that leaves out a declared param
\* without default whose name is supplied as a matrix param only.
C2_Witness ==
    /\ Returned
    /\ err.msg = MsgMissingParams
    /\ \E i \in 1..Len(args.paramSpecs) :
          /\ args.paramSpecs[i].Default = Nil
          /\ args.paramSpecs[i].Name \notin {args.params[j].Name : j \in 1..Len(args.params)}
          /\ args.paramSpecs[i].Name \in {args.matrix[j].Name : j \in 1..Len(args.matrix)}
          /\ args.paramSpecs[i].Name \notin Range(err.vals[1])

RemoveUndeclared(ps) == SelectSeq(ps, LAMBDA p : p.Name \in DeclaredNames)

\* C3: when no non-defaulted declared param is missing: outside alpha the call
\* fails with the 'unexpected parameters' error exactly when some supplied
\* name (ordinary or matrix) is undeclared, naming those names; under alpha
\* undeclared params never fail the call, whose verdict equals that of the
\* call with every undeclared param removed.
C3_ExtraParamsLeniency ==
    (Returned /\ NoDefaultAbsent = {}) =>
        IF args.ctx # "alpha"
        THEN /\ (err.msg = MsgExtraParams) <=> (Undeclared # {})
             /\ (err.msg = MsgExtraParams) => Range(err.vals[1]) = Undeclared
        ELSE /\ err.msg # MsgExtraParams
             /\ Undeclared # {} =>
                   err = validateParams(args.ctx, args.paramSpecs,
                                        RemoveUndeclared(args.params),
                                        RemoveUndeclared(args.matrix))

\* Under alpha a call with an undeclared ordinary param passes.
C3_Witness ==
    /\ Returned
    /\ args.ctx = "alpha"
    /\ NoDefaultAbsent = {}
    /\ \E i \in 1..Len(args.params) : args.params[i].Name \in Undeclared
    /\ DeclaredNames # {}
    /\ err = NilError

WithMatrixType(t) ==
    [i \in 1..Len(args.matrix) |->
        [args.matrix[i] EXCEPT !.Value = [Type |-> t, ObjectVal |-> {}]]]

\* C4: a call that passes the missing and the extra checks fails with the
\* 'param types don't match' error exactly when an ordinary param with a
\* declared name has a value type other than the declared one, or a matrix
\* param with a declared name is declared with a type other than String; the
\* value type of the matrix entries does not change the verdict.
C4_WrongTypeParams ==
    (Returned /\ err.msg \notin {MsgMissingParams, MsgExtraParams}) =>
        /\ (err.msg = MsgWrongTypeParams)
              <=> (OrdinaryWrongType # {} \/ MatrixNotString # {})
        /\ args.matrix # <<>> =>
              \A t \in ParamTypes :
                 validateParams(args.ctx, args.paramSpecs, args.params, WithMatrixType(t)) = err

\* A matrix param of value type String fails the call because its name is
\* declared with the Array type, all ordinary params being well typed.
C4_Witness ==
    /\ Returned
    /\ err.msg = MsgWrongTypeParams
    /\ OrdinaryWrongType = {}
    /\ \E i \in MatrixNotString :
          /\ args.matrix[i].Value.Type = ParamTypeString
          /\ DeclaredType(args.matrix[i].Name) = ParamTypeArray

\* The category of the first non-empty check, in validateParams' order.
FirstViolatedCategory ==
    IF NoDefaultAbsent # {} THEN MsgMissingParams
    ELSE IF args.ctx # "alpha" /\ Undeclared # {} THEN MsgExtraParams
    ELSE IF OrdinaryWrongType # {} \/ MatrixNotString # {} THEN MsgWrongTypeParams
    ELSE IF DOMAIN MissingKeysObjectParamNames(args.paramSpecs, args.params) # {}
         THEN MsgMissingKeysParams
    ELSE Nil

\* C10: validateParams returns the error of the earliest non-empty category
\* in the order missing-without-default, unexpected, wrong type, missing
\* object keys, and nil only when all four are empty.
C10_FirstFailureWins ==
    Returned => err.msg = FirstViolatedCategory

\* A call that violates the missing and the wrong-type category at once.
C10_Witness ==
    /\ Returned
    /\ NoDefaultAbsent # {}
    /\ OrdinaryWrongType # {}
    /\ err.msg = MsgMissingParams

(***************************************************************************)
(* validateResources.                                                      *)
(***************************************************************************)
\* Length of the declared resource list drawn for one validateResources call.
MaxDeclaredResources == 2

ResourceNames == {"r1", "r2"}
ResourceTypes == {"git", "image"}

MsgMissingResources == "Task's declared required resources are missing from the TaskRun"
MsgExtraResources == "TaskRun's declared resources didn't match usage in Task"
MsgResourceMissing == "resource is missing"
MsgResourceType == "resource should be type but was"

resourceNames(list) == [i \in 1..Len(list) |-> list[i].Name]

requiredNames(requiredResources) ==
    resourceNames(SelectSeq(requiredResources, LAMBDA r : ~r.Optional))

optionalNames(requiredResources) ==
    resourceNames(SelectSeq(requiredResources, LAMBDA r : r.Optional))

\* providedResources[name]: the binding, nil for a name that is no key.
binding(providedResources, name) ==
    IF name \in DOMAIN providedResources THEN providedResources[name] ELSE Nil

\* The loop over the declared resources: the first declared resource that is
\* required with a nil binding, or bound to another type, ends the call.
RECURSIVE checkBindings(_, _)
checkBindings(requiredResources, providedResources) ==
    IF requiredResources = <<>> THEN NilError
    ELSE LET resource == Head(requiredResources)
             r == binding(providedResources, resource.Name)
         IN IF ~resource.Optional /\ r = Nil
            THEN Errorf(MsgResourceMissing, <<resource.Name>>)
            ELSE IF r # Nil /\ resource.Type # r
            THEN Errorf(MsgResourceType, <<resource.Name, r, resource.Type>>)
            ELSE checkBindings(Tail(requiredResources), providedResources)

\* Mutant: resources nobody declared are accepted.
extraResources_None(requiredResources, provided) == <<>>

extraResources(requiredResources, provided) ==
    DiffLeft(provided, requiredNames(requiredResources) \o optionalNames(requiredResources))

validateResources(requiredResources, providedResources) ==
    LET provided == KeysInRangeOrder(DOMAIN providedResources)
        missing == DiffLeft(requiredNames(requiredResources), provided)
        extra == extraResources(requiredResources, provided)
    IN IF Len(missing) > 0 THEN Errorf(MsgMissingResources, <<missing>>)
       ELSE IF Len(extra) > 0 THEN Errorf(MsgExtraResources, <<extra>>)
       ELSE checkBindings(requiredResources, providedResources)

TaskResources ==
    [Name : ResourceNames, Type : ResourceTypes, Optional : BOOLEAN]

\* map[string]*PipelineResource: a key's value is nil or a resource, of which
\* only Spec.Type is read.
ProvidedResources ==
    UNION {[D -> ResourceTypes \cup {Nil}] : D \in SUBSET ResourceNames}

InitResources ==
    /\ pc = "ready"
    /\ err = NilError
    /\ \E n \in 0..MaxDeclaredResources :
         args \in [requiredResources : SeqN(TaskResources, n),
                   providedResources : ProvidedResources]

CallValidateResources ==
    /\ pc = "ready"
    /\ err' = validateResources(args.requiredResources, args.providedResources)
    /\ pc' = "done"
    /\ UNCHANGED args

NextResources == CallValidateResources

SpecResources == InitResources /\ [][NextResources]_vars

\* C5: whenever validateResources returns nil, every declared non-optional
\* resource is a key of the provided map with a non-nil binding of the
\* declared type, every declared optional resource with a non-nil binding is
\* bound to its declared type, and every provided key is a declared name.
C5_ResourcesGuarantee ==
    (Returned /\ err = NilError) =>
        /\ \A i \in 1..Len(args.requiredResources) :
              LET d == args.requiredResources[i]
              IN IF ~d.Optional
                 THEN /\ d.Name \in DOMAIN args.providedResources
                      /\ args.providedResources[d.Name] # Nil
                      /\ args.providedResources[d.Name] = d.Type
                 ELSE (/\ d.Name \in DOMAIN args.providedResources
                       /\ args.providedResources[d.Name] # Nil)
                          => args.providedResources[d.Name] = d.Type
        /\ \A k \in DOMAIN args.providedResources :
              \E i \in 1..Len(args.requiredResources) : args.requiredResources[i].Name = k

\* A call passes with a required and a bound optional resource.
C5_Witness ==
    /\ Returned
    /\ err = NilError
    /\ \E i, j \in 1..Len(args.requiredResources) :
          /\ ~args.requiredResources[i].Optional
          /\ args.requiredResources[j].Optional
          /\ args.requiredResources[j].Name \in DOMAIN args.providedResources
          /\ args.providedResources[args.requiredResources[j].Name] # Nil

(***************************************************************************)
(* validateOverrides.                                                      *)
(***************************************************************************)
\* Total number of steps, sidecars and overrides drawn for one call.
MaxOverrideEntries == 4

ContainerNames == {"build", "deploy"}

MsgInvalidStepOverride == "invalid StepOverride: No Step named"
MsgInvalidSidecarOverride == "invalid SidecarOverride: No Sidecar named"
MsgMultierror == "multierror"

\* A *multierror.Error holding the sub-errors errs.
MultiError(errs) == Errorf(MsgMultierror, errs)

\* multierror.Append(err, errs...): the sub-errors of err (err itself when it
\* is no multierror, none when it is nil) followed by those of each of errs,
\* flattened the same way.
RECURSIVE flatten(_)
flatten(errs) ==
    IF errs = <<>> THEN <<>>
    ELSE (IF Head(errs) = NilError THEN <<>>
          ELSE IF Head(errs).msg = MsgMultierror THEN Head(errs).vals
          ELSE <<Head(errs)>>) \o flatten(Tail(errs))

multierrorAppend(e, errs) == MultiError(flatten(<<e>> \o errs))

ErrorOrNil(e) == IF Len(e.vals) = 0 THEN NilError ELSE e

RECURSIVE overrideErrors(_, _, _, _)
overrideErrors(e, names, overrides, msg) ==
    IF overrides = <<>> THEN e
    ELSE overrideErrors(
            IF Head(overrides) \notin names
            THEN multierrorAppend(e, <<Errorf(msg, <<Head(overrides)>>)>>)
            ELSE e,
            names, Tail(overrides), msg)

validateStepOverrides(ts, trs) ==
    overrideErrors(NilError, Range(ts.Steps), trs.StepOverrides, MsgInvalidStepOverride)

validateSidecarOverrides(ts, trs) ==
    overrideErrors(NilError, Range(ts.Sidecars), trs.SidecarOverrides,
                   MsgInvalidSidecarOverride)

\* Mutant: the sidecar overrides are reported only when the step overrides
\* are all valid.
validateOverrides_StepsFirst(ts, trs) ==
    IF validateStepOverrides(ts, trs) # NilError
    THEN validateStepOverrides(ts, trs)
    ELSE validateSidecarOverrides(ts, trs)

validateOverrides(ts, trs) ==
    LET stepErr == validateStepOverrides(ts, trs)
        sidecarErr == validateSidecarOverrides(ts, trs)
    IN ErrorOrNil(multierrorAppend(stepErr, <<sidecarErr>>))

InitOverrides ==
    /\ pc = "ready"
    /\ err = NilError
    /\ \E n1 \in 0..MaxOverrideEntries :
       \E n2 \in 0..(MaxOverrideEntries - n1) :
       \E n3 \in 0..(MaxOverrideEntries - n1 - n2) :
       \E n4 \in 0..(MaxOverrideEntries - n1 - n2 - n3) :
         args \in [ts : [Steps : SeqN(ContainerNames, n1),
                         Sidecars : SeqN(ContainerNames, n2)],
                   trs : [StepOverrides : SeqN(ContainerNames, n3),
                          SidecarOverrides : SeqN(ContainerNames, n4)]]

CallValidateOverrides ==
    /\ pc = "ready"
    /\ err' = validateOverrides(args.ts, args.trs)
    /\ pc' = "done"
    /\ UNCHANGED args

NextOverrides == CallValidateOverrides

SpecOverrides == InitOverrides /\ [][NextOverrides]_vars

BadStepOverrides ==
    SelectSeq(args.trs.StepOverrides, LAMBDA o : o \notin Range(args.ts.Steps))

BadSidecarOverrides ==
    SelectSeq(args.trs.SidecarOverrides, LAMBDA o : o \notin Range(args.ts.Sidecars))

\* C6: validateOverrides returns nil exactly when every step override names a
\* declared step and every sidecar override names a declared sidecar;
\* otherwise it returns one aggregate whose sub-errors are one per offending
\* override: the bad step overrides in list order, then the bad sidecar
\* overrides in list order.
C6_OverridesAggregate ==
    Returned =>
        /\ (err = NilError) <=> (BadStepOverrides = <<>> /\ BadSidecarOverrides = <<>>)
        /\ (err # NilError) =>
              /\ err.msg = MsgMultierror
              /\ err.vals =
                    [i \in 1..Len(BadStepOverrides) |->
                        Errorf(MsgInvalidStepOverride, <<BadStepOverrides[i]>>)]
                    \o
                    [i \in 1..Len(BadSidecarOverrides) |->
                        Errorf(MsgInvalidSidecarOverride, <<BadSidecarOverrides[i]>>)]

\* A bad step override and a bad sidecar override are reported together.
C6_Witness ==
    /\ Returned
    /\ BadStepOverrides # <<>>
    /\ BadSidecarOverrides # <<>>
    /\ Len(err.vals) = Len(BadStepOverrides) + Len(BadSidecarOverrides)

(***************************************************************************)
(* validateTaskRunResults.                                                 *)
(***************************************************************************)
\* Total number of declared and emitted results drawn for one call.
MaxResultEntries == 3

ResultNames == {"out", "aux"}

MsgMismatchedTypes == "missmatched Types for these results"
MsgMissingKeysResults == "missing keys for these results which are required in TaskResult's properties"

\* A pointer is the empty tuple (nil) or the one-element tuple of its target.
NilPtr == <<>>
PtrTo(v) == <<v>>

\* types[name] after `types[e.Name] = append(types[e.Name], string(e.Type))`
\* for every e of list.
collectTypes(list) ==
    [n \in {list[i].Name : i \in 1..Len(list)} |->
        LET named == SelectSeq(list, LAMBDA e : e.Name = n)
        IN [i \in 1..Len(named) |-> named[i].Type]]

mismatchedTypesResults(tr, specResults) ==
    findMissingKeys(collectTypes(specResults), collectTypes(tr.Status.TaskRunResults))

objectResultKeys(specResults) ==
    LET objs == SelectSeq(specResults, LAMBDA r : r.Type = ParamTypeObject)
    IN [i \in 1..Len(objs) |-> [Name |-> objs[i].Name, Keys |-> objs[i].Properties]]

objectEmittedKeys(results) ==
    LET objs == SelectSeq(results, LAMBDA trr : trr.Value.Type = ParamTypeObject)
    IN [i \in 1..Len(objs) |-> [Name |-> objs[i].Name, Keys |-> objs[i].Value.ObjectVal]]

missingKeysofObjectResults(tr, specResults) ==
    findMissingKeys(collectKeys(objectResultKeys(specResults)),
                    collectKeys(objectEmittedKeys(tr.Status.TaskRunResults)))

specResultsOf(tr, resolvedTaskSpec) ==
    (IF tr.Spec.TaskSpec # NilPtr THEN tr.Spec.TaskSpec[1].Results ELSE <<>>)
    \o (IF resolvedTaskSpec # NilPtr THEN resolvedTaskSpec[1].Results ELSE <<>>)

validateTaskRunResults(tr, resolvedTaskSpec) ==
    LET specResults == specResultsOf(tr, resolvedTaskSpec)
        missmatchedTypes == mismatchedTypesResults(tr, specResults)
        missingKeysObjectNames == missingKeysofObjectResults(tr, specResults)
    IN IF DOMAIN missmatchedTypes # {}
       THEN Errorf(MsgMismatchedTypes, <<missmatchedTypes>>)
       ELSE IF DOMAIN missingKeysObjectNames # {}
       THEN Errorf(MsgMissingKeysResults, <<missingKeysObjectNames>>)
       ELSE NilError

TaskResults ==
    {[Name |-> n, Type |-> t, Properties |-> k] :
        n \in ResultNames, t \in ParamTypes \ {ParamTypeObject}, k \in {{}}}
    \cup
    {[Name |-> n, Type |-> t, Properties |-> k] :
        n \in ResultNames, t \in {ParamTypeObject}, k \in SUBSET Keys}

TaskRunResults ==
    {[Name |-> n, Type |-> t, Value |-> v] :
        n \in ResultNames, t \in ParamTypes, v \in ParamValues}

\* A *TaskSpec of which only Results is read: nil, or a spec with n results.
TaskSpecPtrs(n) ==
    {PtrTo([Results |-> r]) : r \in SeqN(TaskResults, n)}
        \cup (IF n = 0 THEN {NilPtr} ELSE {})

InitResults ==
    /\ pc = "ready"
    /\ err = NilError
    /\ \E n1 \in 0..MaxResultEntries :
       \E n2 \in 0..(MaxResultEntries - n1) :
       \E n3 \in 0..(MaxResultEntries - n1 - n2) :
         args \in [tr : [Spec : [TaskSpec : TaskSpecPtrs(n1)],
                         Status : [TaskRunResults : SeqN(TaskRunResults, n3)]],
                   resolvedTaskSpec : TaskSpecPtrs(n2)]

CallValidateTaskRunResults ==
    /\ pc = "ready"
    /\ err' = validateTaskRunResults(args.tr, args.resolvedTaskSpec)
    /\ pc' = "done"
    /\ UNCHANGED args

NextResults == CallValidateTaskRunResults

SpecResults == InitResults /\ [][NextResults]_vars

DeclaredResults == specResultsOf(args.tr, args.resolvedTaskSpec)
EmittedResults == args.tr.Status.TaskRunResults

\* Emitted Object results that lack a key of a same-named Object declaration.
ObjectResultsLackingKeys ==
    {i \in 1..Len(EmittedResults) :
        /\ EmittedResults[i].Value.Type = ParamTypeObject
        /\ \E j \in 1..Len(DeclaredResults) :
              /\ DeclaredResults[j].Name = EmittedResults[i].Name
              /\ DeclaredResults[j].Type = ParamTypeObject
              /\ ~(DeclaredResults[j].Properties \subseteq EmittedResults[i].Value.ObjectVal)}

\* C8: whenever validateTaskRunResults returns nil, every emitted Object
\* result whose name matches a declared Object-typed result holds every key
\* of that declaration's properties, whatever its key set (the empty one
\* included); and once the type check passed, an emitted Object result that
\* lacks a declared key fails the call with the 'missing keys for these
\* results' error naming that result.
C8_ResultKeysComplete ==
    Returned =>
        /\ err = NilError => ObjectResultsLackingKeys = {}
        /\ (err.msg # MsgMismatchedTypes /\ ObjectResultsLackingKeys # {}) =>
              /\ err.msg = MsgMissingKeysResults
              /\ \A i \in ObjectResultsLackingKeys :
                    EmittedResults[i].Name \in DOMAIN err.vals[1]

DeclaredTypes(n) ==
    {DeclaredResults[j].Type : j \in {k \in 1..Len(DeclaredResults) : DeclaredResults[k].Name = n}}

\* Emitted names with a declaration whose declared types do not contain the
\* emitted type.
TypeMismatchedNames ==
    {EmittedResults[i].Name :
        i \in {k \in 1..Len(EmittedResults) :
                  /\ DeclaredTypes(EmittedResults[k].Name) # {}
                  /\ EmittedResults[k].Type \notin DeclaredTypes(EmittedResults[k].Name)}}

\* C9: validateTaskRunResults records a type mismatch for an emitted name
\* exactly when the name is declared and its declared types do not contain
\* the emitted type, and fails with the 'missmatched Types' error exactly
\* when such a name exists.
C9_TypeMismatchRecorded ==
    Returned =>
        /\ (err.msg = MsgMismatchedTypes) <=> (TypeMismatchedNames # {})
        /\ (err.msg = MsgMismatchedTypes) => DOMAIN err.vals[1] = TypeMismatchedNames

(***************************************************************************)
(* ValidateResolvedTaskResources.                                          *)
(***************************************************************************)
\* Total number of list entries and map keys drawn for one call.
MaxResolvedEntries == 2

MsgInvalidParams == "invalid input params for task"
MsgInvalidInputs == "invalid input resources for task"
MsgInvalidOutputs == "invalid output resources for task"

declaredInputs(rtr) ==
    IF rtr.TaskSpec.Resources # NilPtr THEN rtr.TaskSpec.Resources[1].Inputs ELSE <<>>

declaredOutputs(rtr) ==
    IF rtr.TaskSpec.Resources # NilPtr THEN rtr.TaskSpec.Resources[1].Outputs ELSE <<>>

\* Mutant: the output resources are validated before the input resources.
ValidateResolvedTaskResources_OutputsFirst(ctx, params, matrix, rtr) ==
    LET paramsErr == validateParams(ctx, rtr.TaskSpec.Params, params, matrix)
        inputsErr == validateResources(declaredInputs(rtr), rtr.Inputs)
        outputsErr == validateResources(declaredOutputs(rtr), rtr.Outputs)
    IN IF paramsErr # NilError THEN Errorf(MsgInvalidParams, <<rtr.TaskName, paramsErr>>)
       ELSE IF outputsErr # NilError THEN Errorf(MsgInvalidOutputs, <<rtr.TaskName, outputsErr>>)
       ELSE IF inputsErr # NilError THEN Errorf(MsgInvalidInputs, <<rtr.TaskName, inputsErr>>)
       ELSE NilError

ValidateResolvedTaskResources(ctx, params, matrix, rtr) ==
    LET paramsErr == validateParams(ctx, rtr.TaskSpec.Params, params, matrix)
        inputsErr == validateResources(declaredInputs(rtr), rtr.Inputs)
        outputsErr == validateResources(declaredOutputs(rtr), rtr.Outputs)
    IN IF paramsErr # NilError THEN Errorf(MsgInvalidParams, <<rtr.TaskName, paramsErr>>)
       ELSE IF inputsErr # NilError THEN Errorf(MsgInvalidInputs, <<rtr.TaskName, inputsErr>>)
       ELSE IF outputsErr # NilError THEN Errorf(MsgInvalidOutputs, <<rtr.TaskName, outputsErr>>)
       ELSE NilError

ProvidedResourcesOfSize(n) ==
    UNION {[D -> ResourceTypes \cup {Nil}] :
              D \in {S \in SUBSET ResourceNames : Cardinality(S) = n}}

\* A *TaskResources: nil, or the declared inputs and outputs.
TaskResourcesPtrs(ni, no) ==
    {PtrTo([Inputs |-> i, Outputs |-> o]) :
        i \in SeqN(TaskResources, ni), o \in SeqN(TaskResources, no)}
        \cup (IF ni = 0 /\ no = 0 THEN {NilPtr} ELSE {})

InitResolved ==
    /\ pc = "ready"
    /\ err = NilError
    /\ \E ns \in 0..MaxResolvedEntries :
       \E np \in 0..(MaxResolvedEntries - ns) :
       \E nm \in 0..(MaxResolvedEntries - ns - np) :
       \E ni \in 0..(MaxResolvedEntries - ns - np - nm) :
       \E no \in 0..(MaxResolvedEntries - ns - np - nm - ni) :
       \E pi \in 0..(MaxResolvedEntries - ns - np - nm - ni - no) :
       \E po \in 0..(MaxResolvedEntries - ns - np - nm - ni - no - pi) :
         args \in [ctx : FeatureFlags,
                   params : SeqN(Params, np),
                   matrix : SeqN(MatrixParams, nm),
                   rtr : [TaskName : {"task"},
                          TaskSpec : [Params : SeqN(ParamSpecs, ns),
                                      Resources : TaskResourcesPtrs(ni, no)],
                          Inputs : ProvidedResourcesOfSize(pi),
                          Outputs : ProvidedResourcesOfSize(po)]]

CallValidateResolvedTaskResources ==
    /\ pc = "ready"
    /\ err' = ValidateResolvedTaskResources(args.ctx, args.params, args.matrix, args.rtr)
    /\ pc' = "done"
    /\ UNCHANGED args

NextResolved == CallValidateResolvedTaskResources

SpecResolved == InitResolved /\ [][NextResolved]_vars

ParamsStage ==
    validateParams(args.ctx, args.rtr.TaskSpec.Params, args.params, args.matrix)
InputsStage == validateResources(declaredInputs(args.rtr), args.rtr.Inputs)
OutputsStage == validateResources(declaredOutputs(args.rtr), args.rtr.Outputs)

\* C7: ValidateResolvedTaskResources returns nil exactly when validateParams
\* and validateResources on the inputs and on the outputs all return nil;
\* otherwise it returns the error of the first failing stage (params, input
\* resources, output resources) wrapped with the stage label and the task
\* name; and with no declared resources section, a provided input or output
\* resource fails the call, the resource stage reporting it as unexpected.
C7_ResolvedStages ==
    Returned =>
        /\ (err = NilError)
              <=> (ParamsStage = NilError /\ InputsStage = NilError /\ OutputsStage = NilError)
        /\ err.msg = (IF ParamsStage # NilError THEN MsgInvalidParams
                      ELSE IF InputsStage # NilError THEN MsgInvalidInputs
                      ELSE IF OutputsStage # NilError THEN MsgInvalidOutputs
                      ELSE Nil)
        /\ (err # NilError) =>
              /\ err.vals[1] = args.rtr.TaskName
              /\ err.vals[2] = (IF ParamsStage # NilError THEN ParamsStage
                                ELSE IF InputsStage # NilError THEN InputsStage
                                ELSE OutputsStage)
        /\ (/\ args.rtr.TaskSpec.Resources = NilPtr
            /\ (DOMAIN args.rtr.Inputs # {} \/ DOMAIN args.rtr.Outputs # {})) =>
              /\ err # NilError
              /\ ParamsStage = NilError =>
                    /\ err.vals[2].msg = MsgExtraResources
                    /\ Range(err.vals[2].vals[1]) =
                          (IF DOMAIN args.rtr.Inputs # {}
                           THEN DOMAIN args.rtr.Inputs ELSE DOMAIN args.rtr.Outputs)

\* The input and the output resources both fail and only the inputs' error
\* is returned.
C7_Witness ==
    /\ Returned
    /\ ParamsStage = NilError
    /\ InputsStage # NilError
    /\ OutputsStage # NilError
    /\ err.msg = MsgInvalidInputs

====
